---- MODULE Spec2Model ----
(***************************************************************************)
(* Room lifecycle orchestrator of neko-rooms (internal/room/manager.go).   *)
(*                                                                         *)
(* The only state is the container engine's inventory.  The manager keeps  *)
(* nothing between calls: every call reads the inventory, decodes the      *)
(* labels of the workloads that carry the canary marker, and delegates to  *)
(* the engine.  `ret' records the last call and what it returned, so that  *)
(* properties of a call can be stated over the step that performed it.     *)
(*                                                                         *)
(* manager.go calls four helpers of the package whose bodies are not part  *)
(* of the sources at hand (listContainers, inspectContainer,               *)
(* getEprFromLabels, allocatePorts) and utils.NewUID.  They are modelled   *)
(* from the specification text (sections 4.1, 4.2, 4.4) and are marked so. *)
(***************************************************************************)
EXTENDS Integers, Sequences, FiniteSets, TLC

VARIABLES
    containers,  \* engine inventory: container id -> workload record
    ret,         \* the last Room Manager call and its result
    pc,          \* per caller: position inside a Create call in flight
    local        \* per caller: local variables of the Create call in flight

vars == <<containers, ret, pc, local>>

(***************************************************************************)
(* Bounds of the model.                                                    *)
(***************************************************************************)
\* the largest MaxConnections a caller asks for
MaxSize == 5

(***************************************************************************)
(* Program constants and configuration.                                    *)
(***************************************************************************)
nekoImage == "m1k1o/neko:latest"
containerPrefix == "neko-room-"
labelCanary == "m1k1o-neko-rooms"
frontendPort == 8080
\* the configured global window of ports (config.Room, documented example)
EprMin == 59000
EprMax == 59009
TraefikDomain == "neko-rooms"
TraefikCertresolver == ""

\* names a caller passes; "" asks Create to generate one
RoomNames == {"a"}
\* identifiers utils.NewUID can return
UIDs == {"x"}
\* requested MaxConnections
Sizes == {-1, 0, 1, 2, MaxSize}
\* concurrent callers of Create
Procs == {1, 2}
\* id of a workload on the same engine that this system did not create
ForeignId == 0

\* ids of rooms: the engine refuses a container name that is in use, so no
\* more rooms exist at a time than there are room names
RoomIds == 1..Cardinality(RoomNames \cup UIDs)
\* ids a caller passes: the other application's workload, or a room's id,
\* which may or may not exist at the time of the call
Ids == {ForeignId} \cup RoomIds

(***************************************************************************)
(* Decimal formatting and parsing: fmt.Sprintf("%d", n) and its inverse.   *)
(* A string of digits is a sequence of one-character strings.              *)
(***************************************************************************)
Digits == <<"0", "1", "2", "3", "4", "5", "6", "7", "8", "9">>

DigitChar(d) == Digits[d + 1]

DigitValues == [c \in {Digits[i] : i \in 1..10} |->
                   CHOOSE d \in 0..9 : Digits[d + 1] = c]

DigitVal(c) == DigitValues[c]

IsDigit(c) == c \in DOMAIN DigitValues

RECURSIVE FormatNat(_)
FormatNat(n) ==
    IF n < 10 THEN <<DigitChar(n)>>
    ELSE FormatNat(n \div 10) \o <<DigitChar(n % 10)>>

\* fmt.Sprintf("%d", n)
FormatInt(n) == IF n < 0 THEN <<"-">> \o FormatNat(0 - n) ELSE FormatNat(n)

RECURSIVE ParseDigits(_, _)
ParseDigits(s, acc) ==
    IF s = <<>> THEN acc
    ELSE ParseDigits(Tail(s), acc * 10 + DigitVal(Head(s)))

\* parse of a decimal port number: fails on the empty string and on any
\* character that is not a digit
ParseInt(s) ==
    IF s # <<>> /\ \A i \in 1..Len(s) : IsDigit(s[i])
    THEN [ok |-> TRUE, val |-> ParseDigits(s, 0)]
    ELSE [ok |-> FALSE, val |-> 0]

(***************************************************************************)
(* Label codec.  A label map is a function from the keys present to their  *)
(* values; a key that is absent is not in the DOMAIN.                      *)
(***************************************************************************)
KeyName == "m1k1o.neko_rooms.name"
KeyUrl == "m1k1o.neko_rooms.url"
KeyCanary == "m1k1o.neko_rooms.canary"
KeyEprMin == "m1k1o.neko_rooms.epr.min"
KeyEprMax == "m1k1o.neko_rooms.epr.max"

\* containerName := containerPrefix + roomName
ContainerNameOf(roomName) == containerPrefix \o roomName

\* urlProto is https exactly when a certificate resolver is configured
UrlProto == IF TraefikCertresolver # "" THEN "https" ELSE "http"

UrlOf(roomName) == UrlProto \o "://" \o TraefikDomain \o "/" \o roomName \o "/"

\* key and value of the reverse-proxy path rule of a room (the back quotes
\* around the domain and the prefix are left out of the value)
RouterRuleKey(roomName) ==
    "traefik.http.routers." \o ContainerNameOf(roomName) \o ".rule"

RouterRule(roomName) ==
    "Host(" \o TraefikDomain \o ") && PathPrefix(/" \o roomName \o ")"

\* LabelsOf with the slip of writing epr.Min under both range keys
LabelsOfMaxIsMin(roomName, epr) ==
    (KeyName :> roomName)
    @@ (KeyUrl :> UrlOf(roomName))
    @@ (KeyCanary :> labelCanary)
    @@ (KeyEprMin :> FormatInt(epr.Min))
    @@ (KeyEprMax :> FormatInt(epr.Min))
    @@ ("traefik.enable" :> "true")
    @@ (RouterRuleKey(roomName) :> RouterRule(roomName))

\* the labels Create writes for a room and its port range
LabelsOf(roomName, epr) ==
    (KeyName :> roomName)
    @@ (KeyUrl :> UrlOf(roomName))
    @@ (KeyCanary :> labelCanary)
    @@ (KeyEprMin :> FormatInt(epr.Min))
    @@ (KeyEprMax :> FormatInt(epr.Max))
    @@ ("traefik.enable" :> "true")
    @@ (RouterRuleKey(roomName) :> RouterRule(roomName))

\* bindings that map every port of the range to the next host port
PortBindingsOfShifted(epr) == [port \in epr.Min..epr.Max |-> FormatInt(port + 1)]

\* portBindings: every port of the range, bound to the same host port
PortBindingsOf(epr) == [port \in epr.Min..epr.Max |-> FormatInt(port)]

\* exposedPorts: the frontend port and every port of the range
ExposedPortsOf(epr) == {frontendPort} \cup (epr.Min..epr.Max)

\* NEKO_EPR=%d-%d
EnvEprOf(epr) == FormatInt(epr.Min) \o <<"-">> \o FormatInt(epr.Max)

\* decode of the port range of a label map
getEprFromLabels(labels) ==
    IF KeyEprMin \notin DOMAIN labels \/ KeyEprMax \notin DOMAIN labels
    THEN [ok |-> FALSE, Min |-> 0, Max |-> 0]
    ELSE LET lo == ParseInt(labels[KeyEprMin])
             hi == ParseInt(labels[KeyEprMax])
         IN  IF lo.ok /\ hi.ok
             THEN [ok |-> TRUE, Min |-> lo.val, Max |-> hi.val]
             ELSE [ok |-> FALSE, Min |-> 0, Max |-> 0]

(***************************************************************************)
(* Engine reads.                                                           *)
(***************************************************************************)
HasCanary(c) == KeyCanary \in DOMAIN c.labels /\ c.labels[KeyCanary] = labelCanary

\* ids of the workloads that carry the canary marker, whatever their state
CanaryIds(cs) == {id \in DOMAIN cs : HasCanary(cs[id])}

RECURSIVE IdsDescending(_)
IdsDescending(S) ==
    IF S = {} THEN <<>>
    ELSE LET m == CHOOSE x \in S : \A y \in S : y <= x
         IN  <<m>> \o IdsDescending(S \ {m})

\* a list without the filter on the canary marker
listContainersUnfiltered(cs) == IdsDescending(DOMAIN cs)

\* the engine lists the marked workloads, stopped ones included, newest first
listContainers(cs) == IdsDescending(CanaryIds(cs))

\* lookup by id: fails for an unknown id and for a workload without the marker
inspectContainer(cs, id) ==
    IF id \in DOMAIN cs /\ HasCanary(cs[id]) THEN "none" ELSE "NotFound"

(***************************************************************************)
(* Port allocator: first fit over the leased ranges of the inventory.      *)
(***************************************************************************)
\* a scan that passes over the workloads whose range does not decode
getUsedPortsSkipsDamaged(cs) ==
    LET listed == listContainers(cs)
        decoded == {getEprFromLabels(cs[listed[i]].labels) : i \in 1..Len(listed)}
    IN  [ok |-> TRUE,
         ports |-> {[Min |-> d.Min, Max |-> d.Max] : d \in {x \in decoded : x.ok}}]

\* the decoded ranges of all marked workloads; fails if any does not decode
getUsedPorts(cs) ==
    LET listed == listContainers(cs)
        decoded == {getEprFromLabels(cs[listed[i]].labels) : i \in 1..Len(listed)}
    IN  IF \E d \in decoded : ~d.ok
        THEN [ok |-> FALSE, ports |-> {}]
        ELSE [ok |-> TRUE, ports |-> {[Min |-> d.Min, Max |-> d.Max] : d \in decoded}]

\* the leased ranges sorted by their start
RECURSIVE SortByMin(_)
SortByMin(S) ==
    IF S = {} THEN <<>>
    ELSE LET r == CHOOSE x \in S :
                      \A y \in S : x.Min < y.Min \/ (x.Min = y.Min /\ x.Max <= y.Max)
         IN  <<r>> \o SortByMin(S \ {r})

MaxOf(a, b) == IF a >= b THEN a ELSE b

\* scan from `start', skipping every leased interval, to the first gap of
\* `sum' ports
RECURSIVE ScanGap(_, _, _)
ScanGap(sorted, start, sum) ==
    IF sorted = <<>> THEN start
    ELSE IF start + sum - 1 < Head(sorted).Min THEN start
    ELSE ScanGap(Tail(sorted), MaxOf(start, Head(sorted).Max + 1), sum)

\* an allocator without the check of the requested size
allocatePortsUnchecked(cs, sum) ==
    LET used == getUsedPorts(cs)
    IN  IF ~used.ok THEN [err |-> "CorruptMetadata", Min |-> 0, Max |-> 0]
        ELSE LET start == ScanGap(SortByMin(used.ports), EprMin, sum)
             IN  IF start + sum - 1 > EprMax
                 THEN [err |-> "PortExhaustion", Min |-> 0, Max |-> 0]
                 ELSE [err |-> "none", Min |-> start, Max |-> start + sum - 1]

allocatePorts(cs, sum) ==
    IF sum <= 0 THEN [err |-> "InvalidRequest", Min |-> 0, Max |-> 0]
    ELSE LET used == getUsedPorts(cs)
         IN  IF ~used.ok THEN [err |-> "CorruptMetadata", Min |-> 0, Max |-> 0]
             ELSE LET start == ScanGap(SortByMin(used.ports), EprMin, sum)
                  IN  IF start + sum - 1 > EprMax
                      THEN [err |-> "PortExhaustion", Min |-> 0, Max |-> 0]
                      ELSE [err |-> "none", Min |-> start, Max |-> start + sum - 1]

(***************************************************************************)
(* Results of calls.                                                       *)
(***************************************************************************)
NoSettings == [Name |-> "", MaxConnections |-> 0]

\* op: the call; id: the id passed (the id returned, for Create; -1 if none);
\* arg: the settings passed to Create; err: "none" or the error returned;
\* entries: what List returned; out: what Get returned
Result(op, id, arg, err, entries, out) ==
    [op |-> op, id |-> id, arg |-> arg, err |-> err, entries |-> entries, out |-> out]

Failure(op, id, arg, err) == Result(op, id, arg, err, <<>>, NoSettings)

Success(op, id, arg) == Result(op, id, arg, "none", <<>>, NoSettings)

(***************************************************************************)
(* Create                                                                  *)
(***************************************************************************)
\* roomName: the name given, or a generated one; utils.NewUID can fail
ResolveName(settings) ==
    IF settings.Name = ""
    THEN {[ok |-> FALSE, name |-> ""]} \cup {[ok |-> TRUE, name |-> u] : u \in UIDs}
    ELSE {[ok |-> TRUE, name |-> settings.Name]}

\* the workload Create submits: container name, labels, published ports,
\* environment.  `running' is the one fact the manager reads of the engine's
\* state (State == "running"); a created workload is not running
BuildSpec(roomName, epr) ==
    [name |-> ContainerNameOf(roomName),
     labels |-> LabelsOf(roomName, epr),
     exposedPorts |-> ExposedPortsOf(epr),
     portBindings |-> PortBindingsOf(epr),
     envEpr |-> EnvEprOf(epr),
     image |-> nekoImage,
     running |-> FALSE]

\* an engine that accepts a container name twice
NameInUseNever(cs, name) == FALSE

\* the engine refuses a container name that is in use
NameInUse(cs, name) == \E id \in DOMAIN cs : cs[id].name = name

\* the id the engine gives the next workload: ids are opaque to the manager,
\* which keeps none between calls, so the model takes the least unused one
FreshIds(cs) == {id \in RoomIds : id \notin DOMAIN cs}

FreshId(cs) == CHOOSE id \in FreshIds(cs) : \A x \in FreshIds(cs) : id <= x

\* ContainerCreate succeeds: the workload exists under a fresh id
EngineCreate(cs, id, w) == (id :> w) @@ cs

\* ContainerStart / ContainerRestart succeed
EngineStart(cs, id) == [cs EXCEPT ![id].running = TRUE]

\* a stop that stops every workload of the engine
EngineStopAll(cs, id) == [x \in DOMAIN cs |-> [cs[x] EXCEPT !.running = FALSE]]

\* ContainerStop succeeds
EngineStop(cs, id) == [cs EXCEPT ![id].running = FALSE]

\* a remove that reports success and leaves the workload in place
EngineRemoveKeeps(cs, id) == cs

\* ContainerRemove succeeds
EngineRemove(cs, id) == [x \in DOMAIN cs \ {id} |-> cs[x]]

Create(settings) ==
    /\ \E nm \in ResolveName(settings) :
        IF ~nm.ok
        THEN /\ ret' = Failure("Create", -1, settings, "UID")
             /\ UNCHANGED containers
        ELSE \E epr \in {allocatePorts(containers, settings.MaxConnections)} :
             IF epr.err # "none"
             THEN /\ ret' = Failure("Create", -1, settings, epr.err)
                  /\ UNCHANGED containers
             ELSE \E w \in {BuildSpec(nm.name, epr)}, createOk \in BOOLEAN :
                  IF ~createOk \/ NameInUse(containers, w.name)
                  THEN /\ ret' = Failure("Create", -1, settings, "EngineCreate")
                       /\ UNCHANGED containers
                  ELSE \E id \in {x \in FreshIds(containers) : x = FreshId(containers)},
                          startOk \in BOOLEAN :
                       IF ~startOk
                       THEN /\ containers' = EngineCreate(containers, id, w)
                            /\ ret' = Failure("Create", -1, settings, "EngineStart")
                       ELSE /\ containers' =
                                   EngineStart(EngineCreate(containers, id, w), id)
                            /\ ret' = Success("Create", id, settings)
    /\ UNCHANGED <<pc, local>>

(***************************************************************************)
(* List and Get                                                            *)
(***************************************************************************)
\* an entry that reports the width of the range, one short of its size
RoomEntryOffByOne(id, c, epr) ==
    [ID |-> id,
     URL |-> c.labels[KeyUrl],
     Name |-> c.labels[KeyName],
     MaxConnections |-> epr.Max - epr.Min,
     Image |-> c.image,
     Running |-> c.running]

\* one RoomEntry (Status and Created, the engine's status text and creation
\* time, are carried through unchanged and left out)
RoomEntry(id, c, epr) ==
    [ID |-> id,
     URL |-> c.labels[KeyUrl],
     Name |-> c.labels[KeyName],
     MaxConnections |-> epr.Max - epr.Min + 1,
     Image |-> c.image,
     Running |-> c.running]

\* the loop of List with `continue' in place of the error returns
RECURSIVE ListLoopSkipsDamaged(_, _, _)
ListLoopSkipsDamaged(cs, ids, result) ==
    IF ids = <<>> THEN [err |-> "none", entries |-> result]
    ELSE LET c == cs[Head(ids)]
             epr == getEprFromLabels(c.labels)
         IN  IF KeyName \notin DOMAIN c.labels \/ KeyUrl \notin DOMAIN c.labels \/ ~epr.ok
             THEN ListLoopSkipsDamaged(cs, Tail(ids), result)
             ELSE ListLoopSkipsDamaged(cs, Tail(ids),
                                       Append(result, RoomEntry(Head(ids), c, epr)))

\* the loop of List over the listed workloads: the first workload whose
\* labels do not decode ends the call with an error and no entries
RECURSIVE ListLoop(_, _, _)
ListLoop(cs, ids, result) ==
    IF ids = <<>> THEN [err |-> "none", entries |-> result]
    ELSE LET c == cs[Head(ids)]
             epr == getEprFromLabels(c.labels)
         IN  IF KeyName \notin DOMAIN c.labels
             THEN [err |-> "CorruptMetadata", entries |-> <<>>]
             ELSE IF KeyUrl \notin DOMAIN c.labels
             THEN [err |-> "CorruptMetadata", entries |-> <<>>]
             ELSE IF ~epr.ok
             THEN [err |-> "CorruptMetadata", entries |-> <<>>]
             ELSE ListLoop(cs, Tail(ids), Append(result, RoomEntry(Head(ids), c, epr)))

List ==
    /\ LET r == ListLoop(containers, listContainers(containers), <<>>)
       IN  ret' = Result("List", -1, NoSettings, r.err, r.entries, NoSettings)
    /\ UNCHANGED <<containers, pc, local>>

\* a Get that goes on with the zero-valued range when the range does not decode
GetSettingsDefaultsRange(cs, id) ==
    IF inspectContainer(cs, id) # "none"
    THEN [err |-> inspectContainer(cs, id), out |-> NoSettings]
    ELSE IF KeyName \notin DOMAIN cs[id].labels
    THEN [err |-> "CorruptMetadata", out |-> NoSettings]
    ELSE LET epr == getEprFromLabels(cs[id].labels)
         IN  [err |-> "none",
              out |-> [Name |-> cs[id].labels[KeyName],
                       MaxConnections |-> epr.Max - epr.Min + 1]]

\* the settings Get returns (the options read back from the environment by
\* settings.FromEnv belong to the settings schema and are left out)
GetSettings(cs, id) ==
    IF inspectContainer(cs, id) # "none"
    THEN [err |-> inspectContainer(cs, id), out |-> NoSettings]
    ELSE IF KeyName \notin DOMAIN cs[id].labels
    THEN [err |-> "CorruptMetadata", out |-> NoSettings]
    ELSE LET epr == getEprFromLabels(cs[id].labels)
         IN  IF ~epr.ok
             THEN [err |-> "CorruptMetadata", out |-> NoSettings]
             ELSE [err |-> "none",
                   out |-> [Name |-> cs[id].labels[KeyName],
                            MaxConnections |-> epr.Max - epr.Min + 1]]

Get(id) ==
    /\ LET r == GetSettings(containers, id)
       IN  ret' = Result("Get", id, NoSettings, r.err, <<>>, r.out)
    /\ UNCHANGED <<containers, pc, local>>

(***************************************************************************)
(* Remove, Start, Stop, Restart                                            *)
(***************************************************************************)
\* a Remove that goes on to the forced remove when the stop has failed
RemoveIgnoresStopError(id) ==
    /\ \E stopOk \in BOOLEAN, removeOk \in BOOLEAN :
        IF inspectContainer(containers, id) # "none"
        THEN /\ ret' = Failure("Remove", id, NoSettings, inspectContainer(containers, id))
             /\ UNCHANGED containers
        ELSE IF ~removeOk
        THEN /\ ret' = Failure("Remove", id, NoSettings, "EngineRemove")
             /\ containers' = IF stopOk THEN EngineStop(containers, id) ELSE containers
        ELSE /\ ret' = IF stopOk THEN Success("Remove", id, NoSettings)
                       ELSE Failure("Remove", id, NoSettings, "EngineStop")
             /\ containers' = EngineRemove(containers, id)
    /\ UNCHANGED <<pc, local>>

Remove(id) ==
    /\ \E stopOk \in BOOLEAN, removeOk \in BOOLEAN :
        IF inspectContainer(containers, id) # "none"
        THEN /\ ret' = Failure("Remove", id, NoSettings, inspectContainer(containers, id))
             /\ UNCHANGED containers
        ELSE IF ~stopOk
        THEN /\ ret' = Failure("Remove", id, NoSettings, "EngineStop")
             /\ UNCHANGED containers
        ELSE IF ~removeOk
        THEN /\ ret' = Failure("Remove", id, NoSettings, "EngineRemove")
             /\ containers' = EngineStop(containers, id)
        ELSE /\ ret' = Success("Remove", id, NoSettings)
             /\ containers' = EngineRemove(EngineStop(containers, id), id)
    /\ UNCHANGED <<pc, local>>

Start(id) ==
    /\ \E startOk \in BOOLEAN :
        IF inspectContainer(containers, id) # "none"
        THEN /\ ret' = Failure("Start", id, NoSettings, inspectContainer(containers, id))
             /\ UNCHANGED containers
        ELSE IF ~startOk
        THEN /\ ret' = Failure("Start", id, NoSettings, "EngineStart")
             /\ UNCHANGED containers
        ELSE /\ ret' = Success("Start", id, NoSettings)
             /\ containers' = EngineStart(containers, id)
    /\ UNCHANGED <<pc, local>>

\* Stop without the membership check of inspectContainer
StopUnchecked(id) ==
    /\ \E stopOk \in BOOLEAN :
        IF ~stopOk \/ id \notin DOMAIN containers
        THEN /\ ret' = Failure("Stop", id, NoSettings, "EngineStop")
             /\ UNCHANGED containers
        ELSE /\ ret' = Success("Stop", id, NoSettings)
             /\ containers' = EngineStop(containers, id)
    /\ UNCHANGED <<pc, local>>

Stop(id) ==
    /\ \E stopOk \in BOOLEAN :
        IF inspectContainer(containers, id) # "none"
        THEN /\ ret' = Failure("Stop", id, NoSettings, inspectContainer(containers, id))
             /\ UNCHANGED containers
        ELSE IF ~stopOk
        THEN /\ ret' = Failure("Stop", id, NoSettings, "EngineStop")
             /\ UNCHANGED containers
        ELSE /\ ret' = Success("Stop", id, NoSettings)
             /\ containers' = EngineStop(containers, id)
    /\ UNCHANGED <<pc, local>>

Restart(id) ==
    /\ \E restartOk \in BOOLEAN :
        IF inspectContainer(containers, id) # "none"
        THEN /\ ret' = Failure("Restart", id, NoSettings, inspectContainer(containers, id))
             /\ UNCHANGED containers
        ELSE IF ~restartOk
        THEN /\ ret' = Failure("Restart", id, NoSettings, "EngineRestart")
             /\ UNCHANGED containers
        ELSE /\ ret' = Success("Restart", id, NoSettings)
             /\ containers' = EngineStart(containers, id)
    /\ UNCHANGED <<pc, local>>

(***************************************************************************)
(* Initial states and specifications.                                      *)
(***************************************************************************)
\* a workload of another application on the same engine: no canary marker
\* (absent, or another value), other labels as this system would write them
ForeignWorkload(canary) ==
    [name |-> "other-app",
     labels |-> IF canary = ""
                THEN [k \in DOMAIN LabelsOf("a", [Min |-> EprMin, Max |-> EprMin + 1])
                             \ {KeyCanary}
                        |-> LabelsOf("a", [Min |-> EprMin, Max |-> EprMin + 1])[k]]
                ELSE [LabelsOf("a", [Min |-> EprMin, Max |-> EprMin + 1])
                         EXCEPT ![KeyCanary] = canary],
     exposedPorts |-> {},
     portBindings |-> << >>,
     envEpr |-> <<>>,
     image |-> "other/image",
     running |-> TRUE]

AllSettings == [Name : RoomNames \cup {""}, MaxConnections : Sizes]

NoLocal == [settings |-> NoSettings, roomName |-> "", epr |-> [Min |-> 0, Max |-> 0], id |-> -1]

InitCommon ==
    /\ ret = Success("New", -1, NoSettings)
    /\ pc = [p \in Procs |-> "idle"]
    /\ local = [p \in Procs |-> NoLocal]

\* the engine holds no room; it holds a workload of another application
Init ==
    /\ containers = (ForeignId :> ForeignWorkload(""))
    /\ InitCommon

(***************************************************************************)
(* Create as the engine sees it when calls overlap: the scan of the        *)
(* inventory, ContainerCreate and ContainerStart are separate engine       *)
(* calls, and the manager holds no lock between them.                      *)
(***************************************************************************)
\* lines 93-105: resolve the name and allocate against the current inventory
CreateScan(p, settings) ==
    /\ pc[p] = "idle"
    /\ \E nm \in ResolveName(settings) :
        IF ~nm.ok
        THEN /\ ret' = Failure("Create", -1, settings, "UID")
             /\ UNCHANGED <<pc, local>>
        ELSE \E epr \in {allocatePorts(containers, settings.MaxConnections)} :
             IF epr.err # "none"
             THEN /\ ret' = Failure("Create", -1, settings, epr.err)
                  /\ UNCHANGED <<pc, local>>
             ELSE /\ pc' = [pc EXCEPT ![p] = "scanned"]
                  /\ local' = [local EXCEPT ![p] =
                         [settings |-> settings, roomName |-> nm.name,
                          epr |-> [Min |-> epr.Min, Max |-> epr.Max], id |-> -1]]
                  /\ UNCHANGED ret
    /\ UNCHANGED containers

\* lines 107-214: build the workload and submit it to the engine
CreateSubmit(p) ==
    /\ pc[p] = "scanned"
    /\ \E w \in {BuildSpec(local[p].roomName, local[p].epr)}, createOk \in BOOLEAN :
        IF ~createOk \/ NameInUse(containers, w.name)
        THEN /\ ret' = Failure("Create", -1, local[p].settings, "EngineCreate")
             /\ pc' = [pc EXCEPT ![p] = "idle"]
             /\ local' = [local EXCEPT ![p] = NoLocal]
             /\ UNCHANGED containers
        ELSE \E id \in {x \in FreshIds(containers) : x = FreshId(containers)} :
             /\ containers' = EngineCreate(containers, id, w)
             /\ pc' = [pc EXCEPT ![p] = "created"]
             /\ local' = [local EXCEPT ![p].id = id]
             /\ UNCHANGED ret

\* lines 216-223: start the workload
CreateStart(p) ==
    /\ pc[p] = "created"
    /\ \E startOk \in BOOLEAN :
        IF ~startOk
        THEN /\ ret' = Failure("Create", -1, local[p].settings, "EngineStart")
             /\ UNCHANGED containers
        ELSE /\ containers' = EngineStart(containers, local[p].id)
             /\ ret' = Success("Create", local[p].id, local[p].settings)
    /\ pc' = [pc EXCEPT ![p] = "idle"]
    /\ local' = [local EXCEPT ![p] = NoLocal]

\* Room Manager calls that run one at a time, each to completion
Next ==
    \/ \E settings \in AllSettings : Create(settings)
    \/ List
    \/ \E id \in Ids : Get(id)
    \/ \E id \in Ids : Remove(id)
    \/ \E id \in Ids : Start(id)
    \/ \E id \in Ids : Stop(id)
    \/ \E id \in Ids : Restart(id)

Spec == Init /\ [][Next]_vars

\* settings of the Create calls that overlap
ConcSettings == {st \in AllSettings : st.MaxConnections > 0}

\* Create calls of several callers overlap
NextConc ==
    \/ \E p \in Procs, settings \in ConcSettings : CreateScan(p, settings)
    \/ \E p \in Procs : CreateSubmit(p)
    \/ \E p \in Procs : CreateStart(p)

SpecConc == Init /\ [][NextConc]_vars

(***************************************************************************)
(* Inventories the manager did not write itself: a marked workload whose   *)
(* labels are damaged, next to a workload of another application.          *)
(***************************************************************************)
SeedEpr == [Min |-> EprMin, Max |-> EprMin + 1]

Without(labels, key) == [k \in DOMAIN labels \ {key} |-> labels[k]]

\* labels of a marked workload, intact ("ok") or damaged in one way
SeedLabels(kind) ==
    LET good == LabelsOf("a", SeedEpr)
    IN  CASE kind = "ok" -> good
          [] kind = "noName" -> Without(good, KeyName)
          [] kind = "noUrl" -> Without(good, KeyUrl)
          [] kind = "noMin" -> Without(good, KeyEprMin)
          [] kind = "noMax" -> Without(good, KeyEprMax)
          [] kind = "badMin" -> [good EXCEPT ![KeyEprMin] = <<"5", "9", "x">>]
          [] kind = "badMax" -> [good EXCEPT ![KeyEprMax] = <<"-", "1">>]
          [] kind = "emptyMax" -> [good EXCEPT ![KeyEprMax] = <<>>]

SeedKinds == {"ok", "noName", "noUrl", "noMin", "noMax", "badMin", "badMax", "emptyMax"}

SeedRoom(kind) ==
    [BuildSpec("a", SeedEpr) EXCEPT !.labels = SeedLabels(kind), !.running = TRUE]

InitDamaged ==
    /\ \E kind \in SeedKinds :
          containers = (ForeignId :> ForeignWorkload("someone-else"))
                           @@ (1 :> SeedRoom(kind))
    /\ InitCommon

SpecDamaged == InitDamaged /\ [][Next]_vars

(***************************************************************************)
(* Inventories in which the other application's workload carries labels of *)
(* this system's naming scheme that are intact or damaged, and no marker   *)
(* or another marker.                                                      *)
(***************************************************************************)
DamagedAs(labels, kind) ==
    CASE kind = "ok" -> labels
      [] kind = "noName" -> Without(labels, KeyName)
      [] kind = "badMin" -> [labels EXCEPT ![KeyEprMin] = <<"5", "9", "x">>]

ForeignKinds == {<<"", "ok">>, <<"", "badMin">>, <<"someone-else", "noName">>}

InitForeign ==
    /\ \E fk \in ForeignKinds :
          containers = (ForeignId :>
                           [ForeignWorkload(fk[1]) EXCEPT
                               !.labels = DamagedAs(ForeignWorkload(fk[1]).labels, fk[2])])
    /\ InitCommon

SpecForeign == InitForeign /\ [][Next]_vars

(***************************************************************************)
(* The label codec on its own: the labels Create writes for a name and a   *)
(* range are stored on a workload, and read back the way List reads them.  *)
(* local[1] keeps the name and the range that were encoded.                *)
(***************************************************************************)
CodecNames == RoomNames \cup UIDs \cup {"room-1"}

CodecPorts == {1, 9, 10, 99, 100, 999, 1000, EprMin, EprMin + 4, EprMax, 65535}

\* the ranges over these ports that are no wider than the window
CodecRanges ==
    {[Min |-> r[1], Max |-> r[2]] :
        r \in {x \in CodecPorts \X CodecPorts :
                  x[1] <= x[2] /\ x[2] - x[1] <= EprMax - EprMin}}

\* what List reads of the labels of one listed workload
DecodedLabels(c) ==
    IF KeyName \notin DOMAIN c.labels \/ KeyUrl \notin DOMAIN c.labels
    THEN [err |-> "CorruptMetadata"]
    ELSE LET epr == getEprFromLabels(c.labels)
         IN  IF ~epr.ok
             THEN [err |-> "CorruptMetadata"]
             ELSE [err |-> "none",
                   Marked |-> HasCanary(c),
                   Name |-> c.labels[KeyName],
                   URL |-> c.labels[KeyUrl],
                   Min |-> epr.Min,
                   Max |-> epr.Max]

Encode(roomName, epr) ==
    /\ containers' = (1 :> BuildSpec(roomName, epr))
    /\ local' = [local EXCEPT ![1].roomName = roomName, ![1].epr = epr]
    /\ ret' = Success("Encode", 1, NoSettings)
    /\ UNCHANGED pc

Decode ==
    /\ 1 \in DOMAIN containers
    /\ ret' = Result("Decode", 1, NoSettings, DecodedLabels(containers[1]).err,
                     <<DecodedLabels(containers[1])>>, NoSettings)
    /\ UNCHANGED <<containers, pc, local>>

InitCodec ==
    /\ containers = << >>
    /\ InitCommon

NextCodec ==
    \/ \E roomName \in CodecNames, epr \in CodecRanges : Encode(roomName, epr)
    \/ Decode

SpecCodec == InitCodec /\ [][NextCodec]_vars

(***************************************************************************)
(* Vocabulary of the properties.                                           *)
(***************************************************************************)
\* the rooms of the inventory: the workloads that carry the canary marker
Rooms == CanaryIds(containers)

\* the lease a workload's labels record
LeaseOf(c) == getEprFromLabels(c.labels)

\* the host ports a workload publishes
PublishedPorts(c) == DOMAIN c.portBindings

LeasePorts(c) == LeaseOf(c).Min..LeaseOf(c).Max

Window == EprMin..EprMax

\* the ports leased to the rooms of an inventory
LeasedPorts(cs) == UNION {LeasePorts(cs[id]) : id \in CanaryIds(cs)}

\* the starts p of the blocks of `sum' ports that are inside the window and
\* free: [p, p+sum-1] meets no leased port
FreeStarts(cs, sum) ==
    UNION {{p \in Window : /\ p + sum - 1 <= EprMax
                           /\ \A q \in p..(p + sum - 1) : q \notin used}
              : used \in {LeasedPorts(cs)}}

FreeBlockExists(cs, sum) == FreeStarts(cs, sum) # {}

Least(S) == CHOOSE p \in S : \A q \in S : p <= q

\* the step is a call of `op' (every call records itself in ret)
Called(op) == ret'.op = op

\* the workloads a step adds to the inventory
Added == DOMAIN containers' \ DOMAIN containers

(***************************************************************************)
(* C1: with calls running one at a time, every room of the inventory holds *)
(* a port range (the lease of its labels, and the host ports it publishes) *)
(* that lies inside the configured window, and the ranges of two distinct  *)
(* rooms are disjoint.                                                     *)
(***************************************************************************)
C1_RangesInsideWindowAndDisjoint ==
    /\ \A id \in Rooms :
          /\ LeaseOf(containers[id]).ok
          /\ LeaseOf(containers[id]).Min <= LeaseOf(containers[id]).Max
          /\ LeasePorts(containers[id]) \subseteq Window
          /\ PublishedPorts(containers[id]) \subseteq Window
    /\ \A i \in Rooms, j \in Rooms :
          i # j =>
              /\ LeasePorts(containers[i]) \cap LeasePorts(containers[j]) = {}
              /\ PublishedPorts(containers[i]) \cap PublishedPorts(containers[j]) = {}

\* two rooms exist side by side, one of them above the foot of the window
C1_Witness ==
    /\ Cardinality(Rooms) = 2
    /\ ret.op = "Create" /\ ret.err = "none"
    /\ \E id \in Rooms : LeaseOf(containers[id]).Min > EprMin + 1

(***************************************************************************)
(* C2: under every interleaving of overlapping Create calls no two rooms   *)
(* of the inventory have overlapping port ranges.                          *)
(***************************************************************************)
C2_NoOverlapUnderConcurrency ==
    \A i \in Rooms, j \in Rooms :
        i # j =>
            /\ LeasePorts(containers[i]) \cap LeasePorts(containers[j]) = {}
            /\ PublishedPorts(containers[i]) \cap PublishedPorts(containers[j]) = {}

(***************************************************************************)
(* C3: a Create call that returns an error leaves the inventory, and with  *)
(* it the set of leased ranges, as it was before the call.                 *)
(***************************************************************************)
C3_FailedCreateLeavesInventory ==
    [][(Called("Create") /\ ret'.err # "none") => containers' = containers]_vars

(***************************************************************************)
(* C4: allocation is first fit.  Whenever a free block of the requested    *)
(* size exists, the allocator returns the block with the lowest start, and *)
(* the room a Create call adds holds exactly that block: it starts at the  *)
(* lowest port p with [p, p+size-1] inside the window and disjoint from    *)
(* every existing range, and ends at p+size-1.                             *)
(***************************************************************************)
AllocatorIsFirstFit ==
    \A sum \in 1..(MaxSize + 1) :
        \A free \in {FreeStarts(containers, sum)}, got \in {allocatePorts(containers, sum)} :
            free # {} =>
                /\ got.err = "none"
                /\ got.Min = Least(free)
                /\ got.Max = Least(free) + sum - 1

CreateTakesFirstFit ==
    Called("Create") =>
        \A id \in Added :
            \A free \in {FreeStarts(containers, ret'.arg.MaxConnections)},
               lease \in {LeaseOf(containers'[id])} :
                /\ free # {}
                /\ lease.ok
                /\ lease.Min = Least(free)
                /\ lease.Max = Least(free) + ret'.arg.MaxConnections - 1
                /\ PublishedPorts(containers'[id]) = lease.Min..lease.Max

C4_FirstFit == []AllocatorIsFirstFit /\ [][CreateTakesFirstFit]_vars

\* a Create call skipped a gap that was too small and a leased range: its
\* room starts above another room, with free ports below that room
C4_Witness ==
    /\ ret.op = "Create" /\ ret.err = "none"
    /\ \E other \in Rooms \ {ret.id} :
          /\ LeaseOf(containers[other]).Min > EprMin
          /\ LeaseOf(containers[ret.id]).Min > LeaseOf(containers[other]).Max

(***************************************************************************)
(* C5: a Create call fails with the port-exhaustion error exactly when no  *)
(* contiguous free block of the requested size exists inside the window    *)
(* given the current inventory, and then creates no workload.              *)
(***************************************************************************)
C5_ExhaustionExactlyWhenNoBlock ==
    [][Called("Create") =>
          /\ ret'.err = "PortExhaustion"
                 <=> ~FreeBlockExists(containers, ret'.arg.MaxConnections)
          /\ ret'.err = "PortExhaustion" => containers' = containers]_vars

\* every marked workload of the inventory carries a range that decodes
AllDecode(cs) == \A id \in CanaryIds(cs) : LeaseOf(cs[id]).ok

Leases(cs) == {<<LeaseOf(cs[id]).Min, LeaseOf(cs[id]).Max>> : id \in CanaryIds(cs)}

\* C5 as amended: the equivalence holds for the Create calls that reach the
\* allocator with an inventory that decodes, i.e. those that do not fail
\* before it on the generation of a room name; with window [59000,59009]
\* and no rooms a size-5 Create gets [59000,59004], a second one gets
\* [59005,59009], and a Create of size 1 then fails with port exhaustion.
C5_ExhaustionWhenAllocatorReached ==
    [][(Called("Create") /\ ret'.err # "UID" /\ AllDecode(containers)) =>
          \A leased \in {Leases(containers)} :
              /\ ret'.err = "PortExhaustion"
                     <=> ~FreeBlockExists(containers, ret'.arg.MaxConnections)
              /\ ret'.err = "PortExhaustion" => containers' = containers
              /\ (leased = {} /\ ret'.arg.MaxConnections = 5) =>
                     \A id \in Added : LeasePorts(containers'[id]) = 59000..59004
              /\ (leased = {<<59000, 59004>>} /\ ret'.arg.MaxConnections = 5) =>
                     \A id \in Added : LeasePorts(containers'[id]) = 59005..59009
              /\ (leased = {<<59000, 59004>>, <<59005, 59009>>}
                      /\ ret'.arg.MaxConnections = 1) =>
                     ret'.err = "PortExhaustion"]_vars

\* the third call of the scenario has failed: two rooms of five ports fill
\* the window and a Create of size 1 returned the port-exhaustion error
C5_Witness ==
    /\ ret.op = "Create" /\ ret.err = "PortExhaustion" /\ ret.arg.MaxConnections = 1
    /\ Leases(containers) = {<<59000, 59004>>, <<59005, 59009>>}

(***************************************************************************)
(* C6: a room that is not running keeps its lease.  The range a Create     *)
(* call gives to a new room never overlaps the range of a room that exists *)
(* and is stopped.                                                         *)
(***************************************************************************)
C6_StoppedRoomKeepsLease ==
    [][Called("Create") =>
          \A id \in Added, old \in CanaryIds(containers) :
              ~containers[old].running =>
                  /\ LeasePorts(containers'[id]) \cap LeasePorts(containers[old]) = {}
                  /\ PublishedPorts(containers'[id])
                         \cap PublishedPorts(containers[old]) = {}
                  /\ old \in DOMAIN containers']_vars

\* a Create call succeeded while another room was stopped
C6_Witness ==
    /\ ret.op = "Create" /\ ret.err = "none"
    /\ \E old \in Rooms \ {ret.id} : ~containers[old].running

(***************************************************************************)
(* C7: once Remove of a room succeeds the room is gone from the inventory  *)
(* and its ports are free again: no remaining room leases any of them, an  *)
(* allocation of any size up to the size of the freed range succeeds, and  *)
(* after the removal of a room that leased [59000,59004] an allocation of  *)
(* 5 ports returns [59000,59004].                                          *)
(***************************************************************************)
C7_RemoveFreesRange ==
    [][(Called("Remove") /\ ret'.err = "none") =>
          /\ ret'.id \in CanaryIds(containers)
          /\ ret'.id \notin DOMAIN containers'
          /\ \A old \in {LeaseOf(containers[ret'.id])} :
                /\ (old.Min..old.Max) \cap LeasedPorts(containers') = {}
                /\ \A sum \in 1..(old.Max - old.Min + 1) :
                      allocatePorts(containers', sum).err = "none"
                /\ (old.Min = 59000 /\ old.Max = 59004) =>
                      \A got \in {allocatePorts(containers', 5)} :
                          got.err = "none" /\ got.Min = 59000 /\ got.Max = 59004]_vars

\* a room was removed from a full window: the room that remains leases the
\* upper half, and the lower half is free again
C7_Witness ==
    /\ ret.op = "Remove" /\ ret.err = "none"
    /\ Leases(containers) = {<<59005, 59009>>}

(***************************************************************************)
(* C8: no two rooms of the inventory have the same name, and so no two     *)
(* share the key of their routing rule or their path prefix.               *)
(***************************************************************************)
RouterKeys(c) == {k \in DOMAIN c.labels : k \notin {KeyName, KeyUrl, KeyCanary, KeyEprMin,
                                                      KeyEprMax, "traefik.enable"}}

C9_ForeignOrMissingIdRejected ==
    [][((Called("Remove") \/ Called("Start") \/ Called("Stop") \/ Called("Restart"))
          /\ ret'.id \notin CanaryIds(containers)) =>
          /\ ret'.err = "NotFound"
          /\ containers' = containers]_vars

\* a call on the other application's workload was rejected while a room
\* existed, and the other workload is still running
C9_Witness ==
    /\ ret.op \in {"Remove", "Stop"} /\ ret.id = ForeignId /\ ret.err = "NotFound"
    /\ ForeignId \in DOMAIN containers /\ containers[ForeignId].running
    /\ Rooms # {}

(***************************************************************************)
(* C10: List is all or nothing.  If a marked workload lacks the name       *)
(* label or the url label, or has a missing or unparsable epr.min or       *)
(* epr.max label, List returns an error and no entries; otherwise it       *)
(* returns exactly one entry for every marked workload.                    *)
(***************************************************************************)
IsDecimal(s) == Len(s) > 0 /\ \A i \in 1..Len(s) : s[i] \in {Digits[d] : d \in 1..10}

Damaged(c) ==
    \/ KeyName \notin DOMAIN c.labels
    \/ KeyUrl \notin DOMAIN c.labels
    \/ KeyEprMin \notin DOMAIN c.labels
    \/ KeyEprMax \notin DOMAIN c.labels
    \/ ~IsDecimal(c.labels[KeyEprMin])
    \/ ~IsDecimal(c.labels[KeyEprMax])

C10_ListAllOrNothing ==
    ret.op = "List" =>
        IF \E id \in Rooms : Damaged(containers[id])
        THEN ret.err # "none" /\ ret.entries = <<>>
        ELSE /\ ret.err = "none"
             /\ Len(ret.entries) = Cardinality(Rooms)
             /\ {ret.entries[i].ID : i \in 1..Len(ret.entries)} = Rooms

\* List failed on an inventory that holds a damaged room next to an intact one
C10_Witness ==
    /\ ret.op = "List" /\ ret.err # "none"
    /\ \E id \in Rooms : Damaged(containers[id])
    /\ \E id \in Rooms : ~Damaged(containers[id])

(***************************************************************************)
(* C11: List never returns an entry for a workload without the canary      *)
(* marker, and such a workload never makes List fail, whatever labels of   *)
(* this system's naming scheme it carries: List fails only when a marked   *)
(* workload is damaged.                                                    *)
(***************************************************************************)
C11_ListIgnoresUnmarkedWorkloads ==
    ret.op = "List" =>
        /\ \A i \in 1..Len(ret.entries) : ret.entries[i].ID \in Rooms
        /\ ret.err # "none" => \E id \in Rooms : Damaged(containers[id])

\* List returned the rooms while the other application's workload carried
\* damaged labels of the naming scheme
C11_Witness ==
    /\ ret.op = "List" /\ ret.err = "none" /\ Len(ret.entries) = 2
    /\ ForeignId \in DOMAIN containers
    /\ ~HasCanary(containers[ForeignId])
    /\ Damaged(containers[ForeignId])

(***************************************************************************)
(* C12: a successful Create with requested MaxConnections n > 0 stores a   *)
(* range of exactly n ports; the stored labels of a room never change      *)
(* while it exists; and the MaxConnections that List and Get report is     *)
(* max - min + 1 of the stored range, whatever the running state.  Hence   *)
(* the reported capacity is the requested n for as long as the room exists.*)
(***************************************************************************)
ReportedCapacityIsLeaseSize ==
    /\ ret.op = "List" /\ ret.err = "none" =>
          \A i \in 1..Len(ret.entries) :
             \E l \in {LeaseOf(containers[ret.entries[i].ID])} :
                l.ok /\ ret.entries[i].MaxConnections = l.Max - l.Min + 1
    /\ ret.op = "Get" /\ ret.err = "none" =>
          \E l \in {LeaseOf(containers[ret.id])} :
             l.ok /\ ret.out.MaxConnections = l.Max - l.Min + 1

CreateStoresRequestedSize ==
    Called("Create") /\ ret'.err = "none" =>
        /\ ret'.arg.MaxConnections > 0
        /\ Added = {ret'.id}
        /\ \E l \in {LeaseOf(containers'[ret'.id])} :
              l.ok /\ l.Max - l.Min + 1 = ret'.arg.MaxConnections

LabelsNeverChange ==
    \A id \in DOMAIN containers \cap DOMAIN containers' :
        containers'[id].labels = containers[id].labels

C12_CapacityReportedIsRequested ==
    /\ []ReportedCapacityIsLeaseSize
    /\ [][CreateStoresRequestedSize /\ LabelsNeverChange]_vars

\* Get reports the capacity of a stopped room of size 2
C12_Witness ==
    /\ ret.op = "Get" /\ ret.err = "none"
    /\ ret.out.MaxConnections = 2
    /\ ~containers[ret.id].running

(***************************************************************************)
(* C13 as stated: every Create with MaxConnections <= 0 fails with the     *)
(* invalid-request error and creates no workload.  Violated: the room name *)
(* is generated before the size is looked at, and a failing generation     *)
(* ends the call with its own error.                                       *)
(***************************************************************************)
C13_InvalidSizeIsInvalidRequest ==
    [][Called("Create") /\ ret'.arg.MaxConnections <= 0 =>
          ret'.err = "InvalidRequest" /\ UNCHANGED containers]_vars

(***************************************************************************)
(* C13 amended: every Create with MaxConnections <= 0 fails and creates no *)
(* workload; the error is the invalid-request error whenever the name was  *)
(* given, and otherwise that error or the error of the name generation.    *)
(* No room with an empty or inverted port range is ever in the inventory.  *)
(***************************************************************************)
NoEmptyOrInvertedRange ==
    \A id \in Rooms :
        /\ LeaseOf(containers[id]).ok
        /\ LeaseOf(containers[id]).Min <= LeaseOf(containers[id]).Max
        /\ PublishedPorts(containers[id]) # {}

InvalidSizeRejected ==
    Called("Create") /\ ret'.arg.MaxConnections <= 0 =>
        /\ UNCHANGED containers
        /\ ret'.err \in {"InvalidRequest", "UID"}
        /\ ret'.arg.Name # "" => ret'.err = "InvalidRequest"

C13_InvalidSizeCreatesNothing ==
    []NoEmptyOrInvertedRange /\ [][InvalidSizeRejected]_vars

\* a Create of size 0 with a given name was refused while a room existed
C13_Witness ==
    /\ ret.op = "Create" /\ ret.err = "InvalidRequest"
    /\ ret.arg.MaxConnections = 0 /\ ret.arg.Name # ""
    /\ Rooms # {}

(***************************************************************************)
(* C14: while some marked workload has a missing or unparsable epr.min or  *)
(* epr.max label, every Create fails and creates no workload; a Create     *)
(* that reaches the allocator with a valid size fails on the damaged       *)
(* metadata, so the workload is never taken to hold no ports.              *)
(***************************************************************************)
SomeLeaseUndecodable == \E id \in Rooms : ~LeaseOf(containers[id]).ok

C14_DamagedLeaseBlocksCreate ==
    [][Called("Create") /\ SomeLeaseUndecodable =>
          /\ ret'.err # "none"
          /\ UNCHANGED containers
          /\ ret'.err \in {"UID", "InvalidRequest", "CorruptMetadata"}
          /\ ret'.arg.MaxConnections > 0 /\ ret'.arg.Name # "" =>
                ret'.err = "CorruptMetadata"]_vars

\* a Create of a valid size was refused on the damaged range of a workload
C14_Witness ==
    /\ ret.op = "Create" /\ ret.err = "CorruptMetadata"
    /\ ret.arg.MaxConnections = 1
    /\ SomeLeaseUndecodable

(***************************************************************************)
(* C15: Get on a marked workload whose epr.min or epr.max label is missing *)
(* or is not a decimal integer returns an error and no settings, never     *)
(* settings with a zero-valued or defaulted range or MaxConnections.       *)
(***************************************************************************)
EprDamaged(c) ==
    \/ KeyEprMin \notin DOMAIN c.labels
    \/ KeyEprMax \notin DOMAIN c.labels
    \/ ~IsDecimal(c.labels[KeyEprMin])
    \/ ~IsDecimal(c.labels[KeyEprMax])

C15_GetFailsOnDamagedRange ==
    (ret.op = "Get" /\ ret.id \in Rooms /\ EprDamaged(containers[ret.id])) =>
        ret.err # "none" /\ ret.out = NoSettings

\* Get was called on a marked workload that has its name and a damaged range
C15_Witness ==
    /\ ret.op = "Get" /\ ret.id \in Rooms
    /\ KeyName \in DOMAIN containers[ret.id].labels
    /\ EprDamaged(containers[ret.id])
    /\ ret.err = "CorruptMetadata"

(***************************************************************************)
(* C16: for every room name and range [min, max], decoding the labels that *)
(* Create writes (name, url, canary, epr.min, epr.max) succeeds and yields *)
(* the marker, the same name, the url of that name, and the same min and   *)
(* max.                                                                    *)
(***************************************************************************)
C16_LabelsRoundTrip ==
    ret.op = "Decode" =>
        /\ ret.err = "none"
        /\ ret.entries[1] = [err |-> "none",
                             Marked |-> TRUE,
                             Name |-> local[1].roomName,
                             URL |-> UrlOf(local[1].roomName),
                             Min |-> local[1].epr.Min,
                             Max |-> local[1].epr.Max]

\* a range whose bounds differ in their number of digits was read back
C16_Witness ==
    /\ ret.op = "Decode" /\ ret.err = "none"
    /\ ret.entries[1].Min = 9 /\ ret.entries[1].Max = 10
    /\ ret.entries[1].Name = "room-1"

(***************************************************************************)
(* C17: every workload that Create submits publishes exactly the host      *)
(* ports min..max of its range, each container port p bound to host port   *)
(* p; the same min and max are in the labels epr.min and epr.max and in    *)
(* the environment entry NEKO_EPR as MIN-MAX.  So the host ports that two  *)
(* rooms publish are disjoint whenever their labelled ranges are.          *)
(***************************************************************************)
HostPorts(c) == {ParseInt(c.portBindings[p]).val : p \in PublishedPorts(c)}

SubmittedConsistently(c) ==
    /\ LeaseOf(c).ok
    /\ PublishedPorts(c) = LeasePorts(c)
    /\ \A p \in PublishedPorts(c) : c.portBindings[p] = FormatInt(p)
    /\ HostPorts(c) = LeasePorts(c)
    /\ c.exposedPorts = {frontendPort} \cup LeasePorts(c)
    /\ c.envEpr = c.labels[KeyEprMin] \o <<"-">> \o c.labels[KeyEprMax]

C17_PublishedPortsMatchLabels ==
    /\ \A id \in Rooms : SubmittedConsistently(containers[id])
    /\ \A a \in Rooms : \A b \in Rooms \ {a} :
          LeasePorts(containers[a]) \cap LeasePorts(containers[b]) = {}
              => HostPorts(containers[a]) \cap HostPorts(containers[b]) = {}

\* two rooms of more than one port each exist
C17_Witness ==
    /\ Cardinality(Rooms) = 2
    /\ \A id \in Rooms : Cardinality(HostPorts(containers[id])) >= 2

(***************************************************************************)
(* C18: a Start, Stop or Restart call changes at most the running state of *)
(* the room it names: the set of workloads, every workload's name, labels  *)
(* (room name, url, port range), ports and environment, and the running    *)
(* state of every other workload stay as they were.  When the call         *)
(* succeeds the room is stopped after Stop and running after Start and     *)
(* Restart.  The Running flag of every entry List returns is the running   *)
(* state the engine holds for that workload.                               *)
(***************************************************************************)
LifecycleOps == {"Start", "Stop", "Restart"}

ListReportsEngineState ==
    ret.op = "List" /\ ret.err = "none" =>
        \A i \in 1..Len(ret.entries) :
            ret.entries[i].Running = containers[ret.entries[i].ID].running

LifecycleFrame ==
    ret'.op \in LifecycleOps =>
        /\ DOMAIN containers' = DOMAIN containers
        /\ \A x \in DOMAIN containers :
              IF x = ret'.id
              THEN [containers'[x] EXCEPT !.running = containers[x].running]
                       = containers[x]
              ELSE containers'[x] = containers[x]
        /\ ret'.err = "none" =>
              /\ ret'.id \in Rooms
              /\ containers'[ret'.id].running = (ret'.op # "Stop")

C18_LifecycleChangesOnlyRunning ==
    []ListReportsEngineState /\ [][LifecycleFrame]_vars

\* a room was restarted while the other room stayed stopped
C18_Witness ==
    /\ ret.op = "Restart" /\ ret.err = "none"
    /\ containers[ret.id].running
    /\ \E other \in Rooms \ {ret.id} : ~containers[other].running

(***************************************************************************)
(* C19: Remove stops the workload before it removes it and gives up at the *)
(* first engine error.  When the stop fails Remove returns that error and  *)
(* issues no remove: the inventory is as it was, so the room exists and    *)
(* holds its range.  When the remove fails the room exists, stopped, with  *)
(* its range.  The room is absent after the call only when the stop and    *)
(* the forced remove both succeeded, and then Remove returns no error.     *)
(***************************************************************************)
RemoveStopsThenRemoves ==
    Called("Remove") /\ ret'.id \in Rooms =>
        /\ ret'.err \in {"none", "EngineStop", "EngineRemove"}
        /\ ret'.err = "EngineStop" => UNCHANGED containers
        /\ ret'.err = "EngineRemove" =>
              /\ ret'.id \in DOMAIN containers'
              /\ ~containers'[ret'.id].running
              /\ containers'[ret'.id].labels = containers[ret'.id].labels
              /\ containers'[ret'.id].portBindings = containers[ret'.id].portBindings
        /\ ret'.id \notin DOMAIN containers' <=> ret'.err = "none"
        /\ \A x \in DOMAIN containers \ {ret'.id} :
              x \in DOMAIN containers' /\ containers'[x] = containers[x]

C19_RemoveGivesUpOnFirstError ==
    [][RemoveStopsThenRemoves]_vars

\* the stop of a running room failed and Remove left the room in place
C19_Witness ==
    /\ ret.op = "Remove" /\ ret.err = "EngineStop"
    /\ ret.id \in Rooms
    /\ containers[ret.id].running
    /\ LeaseOf(containers[ret.id]).ok

====
